---- MODULE Spec2Model ----
(***************************************************************************)
(* A model of extractor.py: extract_scans walks the list of input          *)
(* containers, process_e57_file walks the scans of one container, and for  *)
(* every scan the batch loop crops, thins and writes the points, after     *)
(* which one row is appended to coords.csv.                                *)
(*                                                                         *)
(* Coordinates, the crop radius and the spacing are integers; distances    *)
(* are compared squared, as the k-d tree does for the Euclidean norm.      *)
(***************************************************************************)
EXTENDS Integers, Sequences, FiniteSets, TLC

\* ------------------------------------------------------------------ bounds

\* Longest file_paths list handed to extract_scans.
MaxFiles == 2
\* Largest scan_count of a container.
MaxScans == 2
\* Longest point sequence of a scan in the runs over several containers.
MaxRunPoints == 1
\* Longest point sequence of a scan in the one-scan runs.
MaxPoints == 4
\* The batch cap of the streaming loop (1000000 in the source), scaled down.
batch_size == 3

\* ------------------------------------------------------------------ inputs

\* The points a scan may hold.
PointSet ==
    { <<0, 0, 0>>, <<1, 0, 0>>, <<2, 0, 0>>, <<0, 2, 0>>, <<0, 0, -2>> }

\* The points of the scans of the runs over several containers.
RunPointSet == { <<0, 0, 0>>, <<2, 0, 0>> }

\* Scan origins (scan_header.translation).
Translations == { <<0, 0, 0>>, <<1, 0, 0>> }

\* Crop radii and thinning spacings a caller may pass.
Radii == {1, 2}
Spacings == {0, 1, 2}

\* Scan names (scan_header['name']).
Names == {"s1", "s2"}

\* The paths a caller may list, as stem and extension: a container that is
\* on disk, one that is not, and a file that is no container.
Paths ==
    { [stem |-> "site", ext |-> ".e57"],
      [stem |-> "gone", ext |-> ".e57"],
      [stem |-> "notes", ext |-> ".txt"] }

\* The listed paths that exist.
OnDisk == { p \in Paths : p.stem # "gone" }

\* os.path.exists(file_path)
os_path_exists(file_path) == file_path \in OnDisk

\* All sequences over S of length at most n.
SeqsUpTo(S, n) == UNION { [1..k -> S] : k \in 0..n }

None == "None"

\* ----------------------------------------------------------------- helpers

Min(a, b) == IF a <= b THEN a ELSE b

\* Whether j occurs in the sequence s.
InSeq(j, s) == \E k \in 1..Len(s) : s[k] = j

\* Squared Euclidean distance of two points.
Dist2(p, q) ==
    (p[1] - q[1]) * (p[1] - q[1]) + (p[2] - q[2]) * (p[2] - q[2])
        + (p[3] - q[3]) * (p[3] - q[3])

\* The orders in which a k-d tree over n points may hold their indices: a
\* query returns its matches in the tree's index order, which is unsorted
\* for a single-point query.
TreeOrders(n) ==
    { o \in [1..n -> 1..n] : \A a, b \in 1..n : a # b => o[a] # o[b] }

\* ---------------------------------------------------------------- cropping

\* The crop box of a scan.
Bounds(translation, radius) ==
    [ maxX |-> translation[1] + radius,
      maxY |-> translation[2] + radius,
      maxZ |-> translation[3] + radius,
      minX |-> translation[1] - radius,
      minY |-> translation[2] - radius,
      minZ |-> translation[3] - radius ]

x_filter(p, bounds) == p[1] >= bounds.minX /\ p[1] <= bounds.maxX
y_filter(p, bounds) == p[2] >= bounds.minY /\ p[2] <= bounds.maxY
z_filter(p, bounds) == p[3] >= bounds.minZ /\ p[3] <= bounds.maxZ

\* A filter that forgets one axis.
valid_points_filter_NoZ(p, bounds) == x_filter(p, bounds) /\ y_filter(p, bounds)

valid_points_filter(p, bounds) ==
    x_filter(p, bounds) /\ y_filter(p, bounds) /\ z_filter(p, bounds)

\* point_batch[valid_points_filter]
Crop(point_batch, bounds) ==
    SelectSeq(point_batch, LAMBDA p : valid_points_filter(p, bounds))

\* ---------------------------------------------------------------- thinning

\* A radius query that leaves out the points exactly r away.
query_ball_point_Strict(data, order, x, r) ==
    SelectSeq(order, LAMBDA j : Dist2(data[j], x) < r * r)

\* tree.query_ball_point(x, r): the indices of the points within distance r
\* of x (inclusive), in the tree's index order.
query_ball_point(data, order, x, r) ==
    SelectSeq(order, LAMBDA j : Dist2(data[j], x) <= r * r)

\* A slice that drops one index too many.
Slice1_Two(indices) == SubSeq(indices, 3, Len(indices))

\* indices[1:]
Slice1(indices) == SubSeq(indices, 2, Len(indices))

\* mask[idx] = False
MaskOff(mask, idx) ==
    [j \in DOMAIN mask |-> IF InSeq(j, idx) THEN FALSE ELSE mask[j]]

\* The loop over enumerate(cropped_points), from position i on.
RECURSIVE ThinLoop(_, _, _, _, _)
ThinLoop(cropped_points, order, r, i, mask) ==
    IF i > Len(cropped_points) THEN mask
    ELSE IF mask[i]
         THEN LET indices ==
                      query_ball_point(cropped_points, order, cropped_points[i], r)
              IN  ThinLoop(cropped_points, order, r, i + 1,
                           MaskOff(mask, Slice1(indices)))
         ELSE ThinLoop(cropped_points, order, r, i + 1, mask)

\* The thinning mask of one cropped batch.
Thin(cropped_points, order, r) ==
    ThinLoop(cropped_points, order, r, 1,
             [j \in 1..Len(cropped_points) |-> TRUE])

\* cropped_points[mask]
Masked(cropped_points, mask) ==
    LET keep == SelectSeq([j \in 1..Len(cropped_points) |-> j],
                          LAMBDA j : mask[j])
    IN  [k \in 1..Len(keep) |-> cropped_points[keep[k]]]

\* ------------------------------------------------------------------ ledger

\* The header row of coords.csv (its transform columns beyond the origin are
\* copied from the scan header unchanged and are left out).
Header == "origin_name,scan_name,translation_x,translation_y,translation_z"

\* The row written for one scan.
Row(e57_file_name, las_file_name, translation) ==
    e57_file_name \o "," \o las_file_name \o "," \o ToString(translation[1])
        \o "," \o ToString(translation[2]) \o "," \o ToString(translation[3])

\* A row left in coords.csv by an earlier run.
OldRow == Row("earlier", "earlier-0.laz", <<0, 0, 0>>)

\* A ledger write that opens the file in mode 'w'.
AppendLine_Truncate(lines, row) == <<row>>

\* open(coords_file_path, 'a') and one write.
AppendLine(lines, row) == Append(lines, row)

\* f"{e57_file_name}-{name}.laz"
LasFileName(e57_file_name, name) == e57_file_name \o "-" \o name \o ".laz"

\* laspy.open(las_full_path, mode='w'): the file is created, or truncated
\* when it is there already.
OpenForWrite(dir, las_file_name) ==
    [f \in DOMAIN dir \cup {las_file_name} |->
        IF f = las_file_name THEN <<>> ELSE dir[f]]

\* ------------------------------------------------------------------- state

VARIABLES
    file_paths,        \* extract_scans' list of container paths
    bounds_radius,     \* the crop radius
    spacing,           \* the thinning spacing
    pc,                \* where the run stands
    file_index,        \* how many entries of file_paths the loop has consumed
    coords,            \* coords.csv: whether it exists, and its lines
    files,             \* the output directory: file name -> points written
    writer,            \* the output file open for writing, or None
    e57_file,          \* the open container: its stem and scan count, or None
    scan_index,        \* the scan loop's index
    scan,              \* the current scan: name, translation, bounds, points
    start_idx,         \* the batch loop's index
    current_progress,  \* current_progress[0]
    raised,            \* the exception that left extract_scans, or None
    batches,           \* history: the batches written for the current scan
    completed,         \* history: the scans whose output file was closed normally
    prior              \* history: coords.csv as the run found it

vars ==
    << file_paths, bounds_radius, spacing, pc, file_index, coords, files,
       writer, e57_file, scan_index, scan, start_idx, current_progress, raised,
       batches, completed, prior >>

NoScan ==
    [ name |-> None, translation |-> <<0, 0, 0>>,
      bounds |-> Bounds(<<0, 0, 0>>, 0), las_file_name |-> None,
      points |-> <<>> ]

NoContainer == [ e57_file_name |-> None, num_scans |-> 0 ]

\* The state at the call of extract_scans(file_paths, _, bounds_radius, spacing).
InitWith(pathLists, radii, spacings, ledgers) ==
    /\ file_paths \in pathLists
    /\ bounds_radius \in radii
    /\ spacing \in spacings
    /\ pc = "start"
    /\ file_index = 0
    /\ coords \in ledgers
    /\ prior = coords
    /\ files = [f \in {} |-> <<>>]
    /\ writer = None
    /\ e57_file = NoContainer
    /\ scan_index = 0
    /\ scan = NoScan
    /\ start_idx = 0
    /\ current_progress = 0
    /\ raised = None
    /\ batches = <<>>
    /\ completed = <<>>

\* ------------------------------------------------------------ extract_scans

\* if not file_paths: return
ReturnNoFiles ==
    /\ pc = "start"
    /\ file_paths = <<>>
    /\ pc' = "returned"
    /\ UNCHANGED << file_paths, bounds_radius, spacing, file_index, coords,
                    files, writer, e57_file, scan_index, scan, start_idx,
                    current_progress, raised, batches, completed, prior >>

\* The output directory and coords.csv are made if they are not there.
Setup ==
    /\ pc = "start"
    /\ file_paths # <<>>
    /\ coords' = IF coords.exists THEN coords
                 ELSE [exists |-> TRUE, lines |-> <<Header>>]
    /\ current_progress' = 0
    /\ pc' = "files"
    /\ UNCHANGED << file_paths, bounds_radius, spacing, file_index, files,
                    writer, e57_file, scan_index, scan, start_idx, raised,
                    batches, completed, prior >>

\* if not file_path.endswith('.e57'): continue
SkipNonE57 ==
    /\ pc = "files"
    /\ file_index < Len(file_paths)
    /\ file_paths[file_index + 1].ext # ".e57"
    /\ file_index' = file_index + 1
    /\ UNCHANGED << file_paths, bounds_radius, spacing, pc, coords, files,
                    writer, e57_file, scan_index, scan, start_idx,
                    current_progress, raised, batches, completed, prior >>

\* The for loop over file_paths is exhausted.
Return ==
    /\ pc = "files"
    /\ file_index >= Len(file_paths)
    /\ pc' = "returned"
    /\ UNCHANGED << file_paths, bounds_radius, spacing, file_index, coords,
                    files, writer, e57_file, scan_index, scan, start_idx,
                    current_progress, raised, batches, completed, prior >>

\* --------------------------------------------------------- process_e57_file

\* os.path.exists(file_path) is false: FileNotFoundError is raised, and
\* nothing between here and the caller of extract_scans catches it.
NotFound ==
    /\ pc = "files"
    /\ file_index < Len(file_paths)
    /\ file_paths[file_index + 1].ext = ".e57"
    /\ ~os_path_exists(file_paths[file_index + 1])
    /\ raised' = "FileNotFoundError"
    /\ pc' = "failed"
    /\ UNCHANGED << file_paths, bounds_radius, spacing, file_index, coords,
                    files, writer, e57_file, scan_index, scan, start_idx,
                    current_progress, batches, completed, prior >>

\* The path exists: the container is opened and its scan count read.
OpenContainer(scanCounts) ==
    /\ pc = "files"
    /\ file_index < Len(file_paths)
    /\ file_paths[file_index + 1].ext = ".e57"
    /\ os_path_exists(file_paths[file_index + 1])
    /\ \E n \in scanCounts :
          e57_file' = [ e57_file_name |-> file_paths[file_index + 1].stem,
                        num_scans |-> n ]
    /\ scan_index' = 0
    /\ pc' = "scans"
    /\ UNCHANGED << file_paths, bounds_radius, spacing, file_index, coords,
                    files, writer, scan, start_idx, current_progress, raised,
                    batches, completed, prior >>

\* One pass of the scan loop up to the batch loop: the header is read, the
\* bounds are computed, the points are read and the output file is opened.
BeginScan(names, translations, pointSeqs) ==
    /\ pc = "scans"
    /\ scan_index < e57_file.num_scans
    /\ \E name \in names, translation \in translations, points \in pointSeqs :
          LET las_file_name == LasFileName(e57_file.e57_file_name, name)
          IN  /\ scan' = [ name |-> name, translation |-> translation,
                           bounds |-> Bounds(translation, bounds_radius),
                           las_file_name |-> las_file_name,
                           points |-> points ]
              /\ files' = OpenForWrite(files, las_file_name)
              /\ writer' = las_file_name
    /\ start_idx' = 0
    /\ batches' = <<>>
    /\ pc' = "batches"
    /\ UNCHANGED << file_paths, bounds_radius, spacing, file_index, coords,
                    e57_file, scan_index, current_progress, raised, completed,
                    prior >>

\* One pass of the batch loop. When a point of the batch is in the box, the
\* batch is cropped, thinned and written. The del statement that ends the
\* pass names cropped_points, thinned_points and point_record, which are
\* bound only on that path (and unbound again by the del of the pass
\* before): with no point in the box it raises UnboundLocalError, the with
\* block closes the writer, and the exception leaves extract_scans.
ProcessBatch ==
    /\ pc = "batches"
    /\ start_idx < Len(scan.points)
    /\ LET end_idx == Min(start_idx + batch_size, Len(scan.points))
           point_batch == SubSeq(scan.points, start_idx + 1, end_idx)
           cropped_points == Crop(point_batch, scan.bounds)
       IN  IF cropped_points # <<>>
           THEN \E order \in TreeOrders(Len(cropped_points)) :
                   LET mask == Thin(cropped_points, order, spacing)
                       thinned_points == Masked(cropped_points, mask)
                   IN  /\ files' = [files EXCEPT ![writer] = @ \o thinned_points]
                       /\ batches' = Append(batches,
                                        [ start_idx |-> start_idx,
                                          cropped_points |-> cropped_points,
                                          mask |-> mask,
                                          thinned_points |-> thinned_points ])
                       /\ start_idx' = start_idx + batch_size
                       /\ UNCHANGED << pc, writer, raised >>
           ELSE /\ raised' = "UnboundLocalError"
                /\ writer' = None
                /\ pc' = "failed"
                /\ UNCHANGED << files, batches, start_idx >>
    /\ UNCHANGED << file_paths, bounds_radius, spacing, file_index, coords,
                    e57_file, scan_index, scan, current_progress, completed,
                    prior >>

\* The batch loop is exhausted and the with block closes the output file.
CloseWriter ==
    /\ pc = "batches"
    /\ start_idx >= Len(scan.points)
    /\ writer' = None
    /\ completed' = Append(completed,
                       [ e57_file_name |-> e57_file.e57_file_name,
                         las_file_name |-> scan.las_file_name,
                         translation |-> scan.translation ])
    /\ pc' = "append"
    /\ UNCHANGED << file_paths, bounds_radius, spacing, file_index, coords,
                    files, e57_file, scan_index, scan, start_idx,
                    current_progress, raised, batches, prior >>

\* The scan's row is appended to coords.csv, and the scan loop goes on. The
\* locals of the pass are dead from here on (the next pass binds them anew
\* before it reads them) and are dropped.
AppendRow ==
    /\ pc = "append"
    /\ coords' = [coords EXCEPT !.lines =
                     AppendLine(@, Row(e57_file.e57_file_name,
                                       scan.las_file_name, scan.translation))]
    /\ scan_index' = scan_index + 1
    /\ scan' = NoScan
    /\ start_idx' = 0
    /\ batches' = <<>>
    /\ pc' = "scans"
    /\ UNCHANGED << file_paths, bounds_radius, spacing, file_index, files,
                    writer, e57_file, current_progress, raised, completed,
                    prior >>

\* The scan loop is exhausted: the container is closed and the progress
\* counter stepped.
CloseContainer ==
    /\ pc = "scans"
    /\ scan_index >= e57_file.num_scans
    /\ e57_file' = NoContainer
    /\ current_progress' = current_progress + 1
    /\ file_index' = file_index + 1
    /\ pc' = "files"
    /\ UNCHANGED << file_paths, bounds_radius, spacing, coords, files, writer,
                    scan_index, scan, start_idx, raised, batches, completed,
                    prior >>

\* ---------------------------------------------------------- specifications

\* The ledgers a run may find: none, one with the header only, one with a row.
Ledgers ==
    { [exists |-> FALSE, lines |-> <<>>],
      [exists |-> TRUE, lines |-> <<Header>>],
      [exists |-> TRUE, lines |-> <<Header, OldRow>>] }

\* Runs over several containers, each with several scans of few points.
Init ==
    InitWith(SeqsUpTo(Paths, MaxFiles), {1}, {1}, Ledgers)

Next ==
    \/ ReturnNoFiles
    \/ Setup
    \/ SkipNonE57
    \/ NotFound
    \/ OpenContainer(0..MaxScans)
    \/ BeginScan(Names, {<<0, 0, 0>>}, SeqsUpTo(RunPointSet, MaxRunPoints))
    \/ ProcessBatch
    \/ CloseWriter
    \/ AppendRow
    \/ CloseContainer
    \/ Return

Spec == Init /\ [][Next]_vars

\* Runs over at most one container of one scan, with every point sequence,
\* radius and spacing.
InitBatch ==
    InitWith(SeqsUpTo(Paths, 1), Radii, Spacings,
             {[exists |-> FALSE, lines |-> <<>>]})

NextBatch ==
    \/ ReturnNoFiles
    \/ Setup
    \/ SkipNonE57
    \/ NotFound
    \/ OpenContainer({1})
    \/ BeginScan({"s1"}, Translations, SeqsUpTo(PointSet, MaxPoints))
    \/ ProcessBatch
    \/ CloseWriter
    \/ AppendRow
    \/ CloseContainer
    \/ Return

SpecBatch == InitBatch /\ [][NextBatch]_vars

\* ------------------------------------------------------------------ claims

\* The box of the specification: translation - radius <= coordinate <=
\* translation + radius on every axis.
InBoxClaim(p, translation, radius) ==
    \A axis \in 1..3 :
        /\ translation[axis] - radius <= p[axis]
        /\ p[axis] <= translation[axis] + radius

\* The points of the scan that the batch starting at index s holds.
RawBatch(s) ==
    SubSeq(scan.points, s + 1, Min(s + batch_size, Len(scan.points)))

\* The batch the loop is about to process.
AtBatch == pc = "batches" /\ start_idx < Len(scan.points)

\* The first-wins greedy reference: a point is retained iff no earlier
\* retained point lies within distance s of it.
RECURSIVE GreedyFrom(_, _, _, _)
GreedyFrom(pts, s, i, keep) ==
    IF i > Len(pts) THEN keep
    ELSE GreedyFrom(pts, s, i + 1,
             [keep EXCEPT ![i] =
                 \A j \in 1..(i - 1) :
                     keep[j] => Dist2(pts[j], pts[i]) > s * s])

GreedyMask(pts, s) == GreedyFrom(pts, s, 1, [j \in 1..Len(pts) |-> TRUE])

RECURSIVE Flatten(_)
Flatten(ss) == IF ss = <<>> THEN <<>> ELSE Head(ss) \o Flatten(Tail(ss))

IsPrefix(s, t) == Len(s) <= Len(t) /\ SubSeq(t, 1, Len(s)) = s

\* C1: a batch in which no point passes the bounding-box filter is skipped
\* without failure: nothing is written for it, and the loop goes on to the
\* next batch.
C1_EmptyBatchSkipped ==
    [][ (AtBatch /\ \A k \in 1..Len(RawBatch(start_idx)) :
                       ~InBoxClaim(RawBatch(start_idx)[k], scan.translation,
                                   bounds_radius))
          => /\ pc' = "batches"
             /\ raised' = None
             /\ files' = files
             /\ writer' = writer
             /\ start_idx' = start_idx + batch_size ]_vars

\* C2: for spacing > 0 the thinning mask of every batch equals the
\* first-wins greedy reference over the cropped points in their order.
C2_MaskIsGreedy ==
    spacing > 0 =>
        \A k \in 1..Len(batches) :
            batches[k].mask = GreedyMask(batches[k].cropped_points, spacing)

\* C3: for spacing > 0, any two distinct points written from one batch are
\* more than spacing apart.
C3_RetainedApart ==
    spacing > 0 =>
        \A k \in 1..Len(batches) :
            LET out == batches[k].thinned_points
            IN  \A i, j \in 1..Len(out) :
                    i # j => Dist2(out[i], out[j]) > spacing * spacing

\* A batch that lost a point to thinning and still wrote two.
C3_Witness ==
    /\ spacing > 0
    /\ \E k \in 1..Len(batches) :
          /\ Len(batches[k].thinned_points) >= 2
          /\ Len(batches[k].thinned_points) < Len(batches[k].cropped_points)

\* C4: every point written to the scan's output file lies in the box of the
\* scan's translation and the crop radius, faces included, and the points a
\* batch keeps after cropping are exactly its points in that box.
C4_WrittenInsideBox ==
    scan.las_file_name \in DOMAIN files =>
        /\ \A i \in 1..Len(files[scan.las_file_name]) :
               InBoxClaim(files[scan.las_file_name][i], scan.translation,
                          bounds_radius)
        /\ \A k \in 1..Len(batches) :
               batches[k].cropped_points =
                   SelectSeq(RawBatch(batches[k].start_idx),
                             LAMBDA p : InBoxClaim(p, scan.translation,
                                                   bounds_radius))

\* A point on a face of the box was written, from a batch that also held a
\* point outside the box.
C4_Witness ==
    /\ scan.las_file_name \in DOMAIN files
    /\ \E i \in 1..Len(files[scan.las_file_name]) :
          \E axis \in 1..3 :
              files[scan.las_file_name][i][axis]
                  = scan.translation[axis] - bounds_radius
    /\ \E k \in 1..Len(batches) :
          Len(batches[k].cropped_points)
              < Len(RawBatch(batches[k].start_idx))

\* The rows of the scans in done.
RowsOf(done) ==
    [i \in 1..Len(done) |->
        Row(done[i].e57_file_name, done[i].las_file_name, done[i].translation)]

\* coords.csv before the run's first append.
BaseLines == IF prior.exists THEN prior.lines ELSE <<Header>>

\* The ledger holds the header, the rows it had, and one row per scan
\* completed, in order (the row of the scan just closed is due).
C5_LedgerRows ==
    (pc # "start" /\ file_paths # <<>>) =>
        /\ coords.exists
        /\ \/ coords.lines = BaseLines \o RowsOf(completed)
           \/ /\ pc = "append"
              /\ coords.lines
                     = BaseLines \o RowsOf(SubSeq(completed, 1,
                                                  Len(completed) - 1))

\* A step that changes the ledger appends one row, after the scan's last
\* batch and with its output file closed; what is written stays.
C5_LedgerStep ==
    coords.exists =>
        /\ coords'.exists
        /\ IsPrefix(coords.lines, coords'.lines)
        /\ coords' # coords =>
              /\ Len(coords'.lines) = Len(coords.lines) + 1
              /\ writer = None
              /\ raised = None
              /\ start_idx >= Len(scan.points)

\* C5: the ledger holds exactly one row per scan completed, in completion
\* order; a row is appended only after the scan's batches and the close of
\* its output file, a failed scan has none, and rows and header never change.
C5_Ledger == []C5_LedgerRows /\ [][C5_LedgerStep]_vars

\* Two scans completed and have their rows after an earlier run's row, and
\* a third failed and has none.
C5_Witness ==
    /\ pc = "failed"
    /\ raised = "UnboundLocalError"
    /\ Len(completed) >= 2
    /\ coords.lines = <<Header, OldRow>> \o RowsOf(completed)

\* C6: a missing container is fatal for that container only: the run does
\* not end at it while a later container of the list, one that is on disk,
\* is unprocessed.
C6_LaterContainersProcessed ==
    raised = "FileNotFoundError" =>
        \A k \in (file_index + 2)..Len(file_paths) :
            ~(file_paths[k].ext = ".e57" /\ file_paths[k] \in OnDisk)

\* C7: with spacing <= 0 the thinning mask is the identity.
C7_NonPositiveSpacingIdentity ==
    spacing <= 0 =>
        \A k \in 1..Len(batches) :
            \A j \in DOMAIN batches[k].mask : batches[k].mask[j]

\* The scans completed have pairwise distinct output files.
C8_DistinctFiles ==
    \A i, j \in 1..Len(completed) :
        i # j => completed[i].las_file_name # completed[j].las_file_name

\* An output file that is closed stays, is not reopened and keeps its points.
C8_ClosedFileKept ==
    \A f \in DOMAIN files :
        f # writer =>
            /\ f \in DOMAIN files'
            /\ files'[f] = files[f]
            /\ writer' # f

\* C8: the scans completed have distinct output files, and no output file
\* already written is reopened, truncated or overwritten by a later scan.
C8_OneFilePerScan == []C8_DistinctFiles /\ [][C8_ClosedFileKept]_vars

\* C9: a batch whose points are all less than spacing apart retains exactly
\* one point.
C9_OnePointRetained ==
    \A k \in 1..Len(batches) :
        LET pts == batches[k].cropped_points
        IN  (\A i, j \in 1..Len(pts) :
                 Dist2(pts[i], pts[j]) < spacing * spacing)
                => Len(batches[k].thinned_points) = 1

\* A batch of three points, not all the same, thinned with a spacing larger
\* than its diameter.
C9_Witness ==
    \E k \in 1..Len(batches) :
        LET pts == batches[k].cropped_points
        IN  /\ Len(pts) >= 3
            /\ \E i, j \in 1..Len(pts) : pts[i] # pts[j]
            /\ \A i, j \in 1..Len(pts) :
                   Dist2(pts[i], pts[j]) < spacing * spacing
            /\ Len(batches[k].thinned_points) = 1

\* C10: once the batch loop of a scan has ended, every batch of the scan
\* (consecutive slices of batch_size points) has been handled and the
\* output is the concatenation of the batches' results, no longer than the
\* scan.
C10_OutputIsConcatenation ==
    (scan.las_file_name # None /\ pc # "batches") =>
        /\ Len(batches) * batch_size >= Len(scan.points)
        /\ \A k \in 1..Len(batches) :
               batches[k].start_idx = (k - 1) * batch_size
        /\ files[scan.las_file_name]
               = Flatten([k \in 1..Len(batches) |-> batches[k].thinned_points])
        /\ Len(files[scan.las_file_name]) <= Len(scan.points)

====
